---- MODULE Spec2Model ----
(***************************************************************************)
(* A model of the symbol table of src/symtable.h in its two               *)
(* implementations: the hash table with chained buckets of                *)
(* src/symtablehash.c and the singly linked list of src/symtablelist.c.   *)
(* Both are driven in lockstep by the same sequence of calls.             *)
(*                                                                         *)
(* A chain of Bindings (key, value, next) is a sequence of records         *)
(* [key, value], the head of the chain first.  A key is the sequence of   *)
(* the bytes of a C string without its terminating NUL.  A value handle   *)
(* is a natural number, 0 being the NULL pointer.                          *)
(***************************************************************************)
EXTENDS Integers, Sequences, FiniteSets, TLC

VARIABLES
    charIsSigned,   \* the build: whether plain char is signed (implementation-defined)
    ref,            \* the caller's table reference: "live", "NULL" or "freed"
    hashT,          \* struct SymTable of symtablehash.c: buckets, length, numBuckets
    listT,          \* struct SymTable of symtablelist.c: firstBinding, length
    op,             \* the last call: its name, arguments and allocation outcomes
    retH,           \* what the last call returned in the hash implementation
    retL,           \* what the last call returned in the list implementation
    preH,           \* hashT as it was when the last call was made
    calls,          \* the callback invocations of the last SymTable_map (hash)
    hist,           \* history of the calls made so far: freshPuts whether they
                    \* were all puts of distinct keys with no allocation failure,
                    \* puts the log of those puts, allocFailed whether an
                    \* allocation failed, calls their number, bound what the
                    \* calls bound each test key to (<<>> is unbound, <<v>> is
                    \* bound to v), was that binding of the last call's key
                    \* before the call
    status          \* "running", or "aborted" once an assert has failed

vars == <<charIsSigned, ref, hashT, listT, op, retH, retL, preH, calls, hist, status>>

-----------------------------------------------------------------------------
(* Bounds of the model. *)

\* value handles are NULL and 1..NumValues
NumValues == 1
\* how many calls are made on a started table
MaxCalls == 2
\* how many bytes the keys given to SymTable_hash alone have at most
MaxKeyLen == 5

-----------------------------------------------------------------------------
(* Program constants. *)

NULL == 0

primeBuckCounts == <<509, 1021, 2039, 4093, 8191, 16381, 32749, 65521>>

HASH_MULTIPLIER == 65599

\* sizeof(size_t): uHash is 8 bytes wide, kept as little-endian base-256 digits
SizeTBytes == 8

Values == 0..NumValues

-----------------------------------------------------------------------------
(* SymTable_hash, computed in size_t arithmetic (modulo 2^(8*SizeTBytes)). *)

\* the conversion of a char to size_t taken as that of an unsigned char
CharToSizeTUnsigned(c, signed) ==
    [i \in 1..SizeTBytes |-> IF i = 1 THEN c ELSE 0]

\* (size_t)pcKey[u]: a plain char converted to size_t; a signed char with the
\* high bit set is negative and converts to 2^w - (256 - c)
CharToSizeT(c, signed) ==
    [i \in 1..SizeTBytes |->
        IF i = 1 THEN c ELSE IF signed /\ c >= 128 THEN 255 ELSE 0]

\* the digits i.. of u * m + a + carry, the overflow out of the last digit dropped
RECURSIVE MulAdd(_, _, _, _, _)
MulAdd(u, m, a, i, carry) ==
    IF i > SizeTBytes THEN <<>>
    ELSE LET t == u[i] * m + a[i] + carry
         IN  <<t % 256>> \o MulAdd(u, m, a, i + 1, t \div 256)

\* u % n, from the most significant digit down
RECURSIVE ModSizeT(_, _, _, _)
ModSizeT(u, i, n, r) ==
    IF i = 0 THEN r ELSE ModSizeT(u, i - 1, n, (r * 256 + u[i]) % n)

\* the loop of SymTable_hash from position u on
RECURSIVE HashLoop(_, _, _, _)
HashLoop(pcKey, u, uHash, signed) ==
    IF u > Len(pcKey) THEN uHash
    ELSE HashLoop(pcKey, u + 1,
                  MulAdd(uHash, HASH_MULTIPLIER, CharToSizeT(pcKey[u], signed), 1, 0),
                  signed)

HashValue(pcKey, uBucketCount, signed) ==
    ModSizeT(HashLoop(pcKey, 1, [i \in 1..SizeTBytes |-> 0], signed),
             SizeTBytes, uBucketCount, 0)

-----------------------------------------------------------------------------
(* The keys and the tables the callers use. *)

\* the decimal numeral of i as a C string: "0", "1", ..., "10", ...
RECURSIVE Numeral(_)
Numeral(i) ==
    IF i < 10 THEN <<48 + i>> ELSE Append(Numeral(i \div 10), 48 + (i % 10))

\* a table is started by putting the keys "0", "1", ... into a new table;
\* the i-th of them is bound to the handle BulkValue(i)
BulkValue(i) == i % (NumValues + 1)

\* the positions in primeBuckCounts of the bucket counts the started tables
\* are filled beyond
StartBoundaries == {1}

\* the lengths of the starting tables: empty, and one binding more than the
\* bucket count (so that the next put attempts to grow)
StartLengths == {0} \cup {primeBuckCounts[i] + 1 : i \in StartBoundaries}

MaxStart == CHOOSE n \in StartLengths : \A m \in StartLengths : m <= n

\* The keys of the calls made on a started table.  "470" is bound in every
\* started table that is not empty, where it is the first Binding of its
\* chain, before "4"; "qoz" is bound in none and shares the bucket of "470"
\* under 509 buckets and under 1021 (where "22" and "63" share it too); the
\* key of the single byte 200 is bound in none and its bucket depends on the
\* signedness of char.
TestKeys == {Numeral(470), <<113, 111, 122>>, <<200>>}

AllKeys == {Numeral(i) : i \in 0..(MaxStart - 1)} \cup TestKeys

\* the bucket counts a started table can reach
UsedCounts ==
    {primeBuckCounts[1]} \cup {primeBuckCounts[i + 1] : i \in StartBoundaries}

\* SymTable_hash of every key of the model, computed once
HashTable ==
    [signed \in BOOLEAN |->
        [n \in UsedCounts |-> [k \in AllKeys |-> HashValue(k, n, signed)]]]

SymTable_hash(pcKey, uBucketCount) == HashTable[charIsSigned][uBucketCount][pcKey]

-----------------------------------------------------------------------------
(* symtablehash.c *)

Binding(k, v) == [key |-> k, value |-> v]

\* the search of a chain comparing pcKey with the key of the first Binding only
FindBindingFirstOnly(chain, pcKey) ==
    IF chain # <<>> /\ chain[1].key = pcKey THEN 1 ELSE 0

\* the position in a chain of the first Binding whose key strcmp finds equal
\* to pcKey, or 0 when the loop runs to the end of the chain
FindBinding(chain, pcKey) ==
    IF \E i \in 1..Len(chain) : chain[i].key = pcKey
    THEN CHOOSE i \in 1..Len(chain) :
            /\ chain[i].key = pcKey
            /\ \A j \in 1..(i - 1) : chain[j].key # pcKey
    ELSE 0

\* a new table sized with the second bucket count of the sequence
HashNewSecondCount ==
    [buckets    |-> [b \in 0..(primeBuckCounts[2] - 1) |-> <<>>],
     length     |-> 0,
     numBuckets |-> primeBuckCounts[2]]

\* the table SymTable_new returns when both allocations succeed
HashNew ==
    [buckets    |-> [b \in 0..(primeBuckCounts[1] - 1) |-> <<>>],
     length     |-> 0,
     numBuckets |-> primeBuckCounts[1]]

\* what is left of a table that does not exist (never made, or freed)
NoHashTable == [buckets |-> <<>>, length |-> 0, numBuckets |-> 0]

\* the Bindings of buckets lo..hi in the order the nested loops of
\* SymTable_expand, SymTable_map and SymTable_free visit them
RECURSIVE Traverse(_, _, _)
Traverse(buckets, lo, hi) ==
    IF lo > hi THEN <<>>
    ELSE IF lo = hi THEN buckets[lo]
    ELSE LET mid == (lo + hi) \div 2
         IN  Traverse(buckets, lo, mid) \o Traverse(buckets, mid + 1, hi)

AllBindings(t) == Traverse(t.buckets, 0, t.numBuckets - 1)

\* the while loop of SymTable_expand: the position of numBuckets in
\* primeBuckCounts (positions count from 1 here, from 0 in C)
RECURSIVE ExpandIndex(_, _)
ExpandIndex(index, numBuckets) ==
    IF index <= Len(primeBuckCounts) /\ primeBuckCounts[index] # numBuckets
    THEN ExpandIndex(index + 1, numBuckets)
    ELSE index

\* Rehash with the link to the Bindings already in the new bucket left out
RECURSIVE RehashOverwrite(_, _, _, _, _)
RehashOverwrite(newBuckets, bs, lo, hi, newNumBuckets) ==
    IF lo > hi THEN newBuckets
    ELSE IF lo = hi
    THEN LET newBucket == SymTable_hash(bs[lo].key, newNumBuckets)
         IN  [newBuckets EXCEPT ![newBucket] = <<bs[lo]>>]
    ELSE LET mid   == (lo + hi) \div 2
             first == RehashOverwrite(newBuckets, bs, lo, mid, newNumBuckets)
         IN  IF Len(first[0]) >= 0
             THEN RehashOverwrite(first, bs, mid + 1, hi, newNumBuckets)
             ELSE first

\* Rehash computing the new bucket with the bucket count the table has
\* before the growth
RECURSIVE RehashOldCount(_, _, _, _, _)
RehashOldCount(newBuckets, bs, lo, hi, newNumBuckets) ==
    IF lo > hi THEN newBuckets
    ELSE IF lo = hi
    THEN LET numBuckets == primeBuckCounts[ExpandIndex(1, newNumBuckets) - 1]
             newBucket  == SymTable_hash(bs[lo].key, numBuckets)
         IN  [newBuckets EXCEPT ![newBucket] = <<bs[lo]>> \o @]
    ELSE LET mid   == (lo + hi) \div 2
             first == RehashOldCount(newBuckets, bs, lo, mid, newNumBuckets)
         IN  IF Len(first[0]) >= 0
             THEN RehashOldCount(first, bs, mid + 1, hi, newNumBuckets)
             ELSE first

\* the body of the rehash loop for the Bindings bs[lo..hi], in order: each
\* becomes the first Binding of its new bucket (the range is split in halves
\* only to keep the evaluation shallow)
RECURSIVE Rehash(_, _, _, _, _)
Rehash(newBuckets, bs, lo, hi, newNumBuckets) ==
    IF lo > hi THEN newBuckets
    ELSE IF lo = hi
    THEN LET newBucket == SymTable_hash(bs[lo].key, newNumBuckets)
         IN  [newBuckets EXCEPT ![newBucket] = <<bs[lo]>> \o @]
    ELSE LET mid   == (lo + hi) \div 2
             first == Rehash(newBuckets, bs, lo, mid, newNumBuckets)
         IN  \* the test has TLC finish the first half before it starts the second
             IF Len(first[0]) >= 0
             THEN Rehash(first, bs, mid + 1, hi, newNumBuckets)
             ELSE first

\* SymTable_expand with the assignment of numBuckets left out
SymTable_expandStaleCount(t, callocOK) ==
    LET index         == ExpandIndex(1, t.numBuckets)
        newNumBuckets == primeBuckCounts[index + 1]
        bs            == AllBindings(t)
    IN  IF ~callocOK THEN t
        ELSE [t EXCEPT
                !.buckets = Rehash([b \in 0..(newNumBuckets - 1) |-> <<>>],
                                   bs, 1, Len(bs), newNumBuckets)]

SymTable_expand(t, callocOK) ==
    LET index         == ExpandIndex(1, t.numBuckets)
        newNumBuckets == primeBuckCounts[index + 1]
        bs            == AllBindings(t)
    IN  IF ~callocOK THEN t
        ELSE [t EXCEPT
                !.buckets = Rehash([b \in 0..(newNumBuckets - 1) |-> <<>>],
                                   bs, 1, Len(bs), newNumBuckets),
                !.numBuckets = newNumBuckets]

\* the growth condition met as soon as length reaches the bucket count
GrowthAttemptedAtCount(t) ==
    /\ t.length >= t.numBuckets
    /\ t.numBuckets < primeBuckCounts[Len(primeBuckCounts)]

\* the growth condition with the maximum taken one position early
GrowthAttemptedBelowLast(t) ==
    /\ t.length > t.numBuckets
    /\ t.numBuckets < primeBuckCounts[Len(primeBuckCounts) - 1]

\* whether SymTable_put calls SymTable_expand
\* the growth condition without the test of the maximum
GrowthAttemptedUncapped(t) ==
    t.length > t.numBuckets

GrowthAttempted(t) ==
    /\ t.length > t.numBuckets
    /\ t.numBuckets < primeBuckCounts[Len(primeBuckCounts)]

\* SymTable_put with the increment of length left out
SymTable_putNoCount(t, pcKey, pvValue, alloc) ==
    LET e      == IF GrowthAttempted(t) THEN SymTable_expand(t, alloc.calloc) ELSE t
        bucket == SymTable_hash(pcKey, e.numBuckets)
    IN  IF FindBinding(e.buckets[bucket], pcKey) # 0 THEN [t |-> e, ret |-> 0]
        ELSE IF alloc.malloc = "node" THEN [t |-> e, ret |-> 0]
        ELSE IF alloc.malloc = "key" THEN [t |-> e, ret |-> 0]
        ELSE [t   |-> [e EXCEPT
                          !.buckets[bucket] = <<Binding(pcKey, pvValue)>> \o @],
              ret |-> 1]

\* SymTable_put storing the value in the Binding it finds
SymTable_putOverwrite(t, pcKey, pvValue, alloc) ==
    LET e      == IF GrowthAttempted(t) THEN SymTable_expand(t, alloc.calloc) ELSE t
        bucket == SymTable_hash(pcKey, e.numBuckets)
        i      == FindBinding(e.buckets[bucket], pcKey)
    IN  IF i # 0
        THEN [t |-> [e EXCEPT !.buckets[bucket][i].value = pvValue], ret |-> 0]
        ELSE IF alloc.malloc = "node" THEN [t |-> e, ret |-> 0]
        ELSE IF alloc.malloc = "key" THEN [t |-> e, ret |-> 0]
        ELSE [t   |-> [e EXCEPT
                          !.buckets[bucket] = <<Binding(pcKey, pvValue)>> \o @,
                          !.length = @ + 1],
              ret |-> 1]

\* SymTable_put giving up, with result 0, when the growth it attempts fails
SymTable_putReportsGrowth(t, pcKey, pvValue, alloc) ==
    LET e      == IF GrowthAttempted(t) THEN SymTable_expand(t, alloc.calloc) ELSE t
        bucket == SymTable_hash(pcKey, e.numBuckets)
    IN  IF GrowthAttempted(t) /\ ~alloc.calloc THEN [t |-> t, ret |-> 0]
        ELSE IF FindBinding(e.buckets[bucket], pcKey) # 0 THEN [t |-> e, ret |-> 0]
        ELSE IF alloc.malloc = "node" THEN [t |-> e, ret |-> 0]
        ELSE IF alloc.malloc = "key" THEN [t |-> e, ret |-> 0]
        ELSE [t   |-> [e EXCEPT
                          !.buckets[bucket] = <<Binding(pcKey, pvValue)>> \o @,
                          !.length = @ + 1],
              ret |-> 1]

\* SymTable_put linking the new Binding at the end of its chain
SymTable_putAtTail(t, pcKey, pvValue, alloc) ==
    LET e      == IF GrowthAttempted(t) THEN SymTable_expand(t, alloc.calloc) ELSE t
        bucket == SymTable_hash(pcKey, e.numBuckets)
    IN  IF FindBinding(e.buckets[bucket], pcKey) # 0 THEN [t |-> e, ret |-> 0]
        ELSE IF alloc.malloc = "node" THEN [t |-> e, ret |-> 0]
        ELSE IF alloc.malloc = "key" THEN [t |-> e, ret |-> 0]
        ELSE [t   |-> [e EXCEPT
                          !.buckets[bucket] = @ \o <<Binding(pcKey, pvValue)>>,
                          !.length = @ + 1],
              ret |-> 1]

\* SymTable_put: the table afterwards and the result.  alloc tells how the
\* allocations go: alloc.calloc whether the calloc of SymTable_expand
\* succeeds, alloc.malloc is "ok", "node" (the malloc of the Binding fails)
\* or "key" (the malloc of the key copy fails)
SymTable_put(t, pcKey, pvValue, alloc) ==
    LET e      == IF GrowthAttempted(t) THEN SymTable_expand(t, alloc.calloc) ELSE t
        bucket == SymTable_hash(pcKey, e.numBuckets)
    IN  IF FindBinding(e.buckets[bucket], pcKey) # 0 THEN [t |-> e, ret |-> 0]
        ELSE IF alloc.malloc = "node" THEN [t |-> e, ret |-> 0]
        ELSE IF alloc.malloc = "key" THEN [t |-> e, ret |-> 0]
        ELSE [t   |-> [e EXCEPT
                          !.buckets[bucket] = <<Binding(pcKey, pvValue)>> \o @,
                          !.length = @ + 1],
              ret |-> 1]

\* SymTable_replace returning the value it stores
SymTable_replaceReturnsNew(t, pcKey, pvValue) ==
    LET bucket == SymTable_hash(pcKey, t.numBuckets)
        i      == FindBinding(t.buckets[bucket], pcKey)
    IN  IF i = 0 THEN [t |-> t, ret |-> NULL]
        ELSE [t   |-> [t EXCEPT !.buckets[bucket][i].value = pvValue],
              ret |-> pvValue]

SymTable_replace(t, pcKey, pvValue) ==
    LET bucket == SymTable_hash(pcKey, t.numBuckets)
        i      == FindBinding(t.buckets[bucket], pcKey)
    IN  IF i = 0 THEN [t |-> t, ret |-> NULL]
        ELSE [t   |-> [t EXCEPT !.buckets[bucket][i].value = pvValue],
              ret |-> t.buckets[bucket][i].value]

SymTable_contains(t, pcKey) ==
    LET bucket == SymTable_hash(pcKey, t.numBuckets)
    IN  IF FindBinding(t.buckets[bucket], pcKey) # 0 THEN 1 ELSE 0

\* SymTable_get returning the value of the first Binding of the bucket
SymTable_getBucketHead(t, pcKey) ==
    LET bucket == SymTable_hash(pcKey, t.numBuckets)
    IN  IF t.buckets[bucket] # <<>> THEN t.buckets[bucket][1].value ELSE NULL

SymTable_get(t, pcKey) ==
    LET bucket == SymTable_hash(pcKey, t.numBuckets)
        i      == FindBinding(t.buckets[bucket], pcKey)
    IN  IF i # 0 THEN t.buckets[bucket][i].value ELSE NULL

SymTable_getLength(t) == t.length

\* Unlink with the predecessor of an interior Binding left pointing nowhere
UnlinkDropsRest(chain, i) ==
    IF i = 1 THEN Tail(chain) ELSE SubSeq(chain, 1, i - 1)

\* a chain with its i-th Binding unlinked: the head of the chain is replaced
\* by its successor, an interior Binding is bypassed by its predecessor
Unlink(chain, i) ==
    IF i = 1 THEN Tail(chain)
    ELSE SubSeq(chain, 1, i - 1) \o SubSeq(chain, i + 1, Len(chain))

\* SymTable_remove decrementing length whether or not the key is found
SymTable_removeAlwaysCounts(t, pcKey) ==
    LET bucket == SymTable_hash(pcKey, t.numBuckets)
        i      == FindBinding(t.buckets[bucket], pcKey)
    IN  IF i = 0 THEN [t |-> [t EXCEPT !.length = @ - 1], ret |-> NULL]
        ELSE [t   |-> [t EXCEPT !.buckets[bucket] = Unlink(@, i),
                                !.length = @ - 1],
              ret |-> t.buckets[bucket][i].value]

\* SymTable_remove with the decrement of length left out
SymTable_removeKeepsLength(t, pcKey) ==
    LET bucket == SymTable_hash(pcKey, t.numBuckets)
        i      == FindBinding(t.buckets[bucket], pcKey)
    IN  IF i = 0 THEN [t |-> t, ret |-> NULL]
        ELSE [t   |-> [t EXCEPT !.buckets[bucket] = Unlink(@, i)],
              ret |-> t.buckets[bucket][i].value]

SymTable_remove(t, pcKey) ==
    LET bucket == SymTable_hash(pcKey, t.numBuckets)
        i      == FindBinding(t.buckets[bucket], pcKey)
    IN  IF i = 0 THEN [t |-> t, ret |-> NULL]
        ELSE [t   |-> [t EXCEPT !.buckets[bucket] = Unlink(@, i),
                                !.length = @ - 1],
              ret |-> t.buckets[bucket][i].value]

\* SymTable_map stopping one bucket early
SymTable_mapSkipsLast(t, pvExtra) ==
    LET bs == Traverse(t.buckets, 0, t.numBuckets - 2)
    IN  [i \in 1..Len(bs) |-> <<bs[i].key, bs[i].value, pvExtra>>]

\* SymTable_map: the calls of pfApply, in order, each <<key, value, pvExtra>>
SymTable_map(t, pvExtra) ==
    LET bs == AllBindings(t)
    IN  [i \in 1..Len(bs) |-> <<bs[i].key, bs[i].value, pvExtra>>]

-----------------------------------------------------------------------------
(* symtablelist.c *)

ListNew == [firstBinding |-> <<>>, length |-> 0]

NoListTable == [firstBinding |-> <<>>, length |-> 0]

List_put(t, pcKey, pvValue, alloc) ==
    IF FindBinding(t.firstBinding, pcKey) # 0 THEN [t |-> t, ret |-> 0]
    ELSE IF alloc.malloc = "node" THEN [t |-> t, ret |-> 0]
    ELSE IF alloc.malloc = "key" THEN [t |-> t, ret |-> 0]
    ELSE [t   |-> [firstBinding |-> <<Binding(pcKey, pvValue)>> \o t.firstBinding,
                   length       |-> t.length + 1],
          ret |-> 1]

List_replace(t, pcKey, pvValue) ==
    LET i == FindBinding(t.firstBinding, pcKey)
    IN  IF i = 0 THEN [t |-> t, ret |-> NULL]
        ELSE [t   |-> [t EXCEPT !.firstBinding[i].value = pvValue],
              ret |-> t.firstBinding[i].value]

List_contains(t, pcKey) ==
    IF FindBinding(t.firstBinding, pcKey) # 0 THEN 1 ELSE 0

List_get(t, pcKey) ==
    LET i == FindBinding(t.firstBinding, pcKey)
    IN  IF i # 0 THEN t.firstBinding[i].value ELSE NULL

List_getLength(t) == t.length

List_remove(t, pcKey) ==
    LET i == FindBinding(t.firstBinding, pcKey)
    IN  IF i = 0 THEN [t |-> t, ret |-> NULL]
        ELSE [t   |-> [firstBinding |-> Unlink(t.firstBinding, i),
                       length       |-> t.length - 1],
              ret |-> t.firstBinding[i].value]

-----------------------------------------------------------------------------
(* The starting states: SymTable_new, then the keys "0", "1", ... put in     *)
(* order by the operators above.                                             *)

AllocOK == [calloc |-> TRUE, malloc |-> "ok"]

\* SymTable_new: alloc is "ok", "table" (the malloc of the struct fails) or
\* "buckets" (the calloc of the bucket array fails)
SymTable_new(alloc) ==
    IF alloc = "table" THEN [ref |-> "NULL", t |-> NoHashTable]
    ELSE IF alloc = "buckets" THEN [ref |-> "NULL", t |-> NoHashTable]
    ELSE [ref |-> "live", t |-> HashNew]

List_new(alloc) ==
    IF alloc # "ok" THEN [ref |-> "NULL", t |-> NoListTable]
    ELSE [ref |-> "live", t |-> ListNew]

PutRecord(k, v, r) == [key |-> k, value |-> v, ret |-> r]

\* st = [h, l, log]: both tables and the log of the puts made; the keys
\* Numeral(lo), ..., Numeral(hi) put in order into both
RECURSIVE PutAll(_, _, _)
PutAll(st, lo, hi) ==
    IF lo > hi THEN st
    ELSE IF lo = hi
    THEN LET h == SymTable_put(st.h, Numeral(lo), BulkValue(lo), AllocOK)
             l == List_put(st.l, Numeral(lo), BulkValue(lo), AllocOK)
         IN  [h   |-> h.t,
              l   |-> l.t,
              log |-> Append(st.log, PutRecord(Numeral(lo), BulkValue(lo), h.ret))]
    ELSE LET mid   == (lo + hi) \div 2
             first == PutAll(st, lo, mid)
         IN  \* the test has TLC finish the first half before it starts the second
             IF Len(first.log) >= 0 THEN PutAll(first, mid + 1, hi) ELSE first

Started(n) == PutAll([h |-> HashNew, l |-> ListNew, log |-> <<>>], 0, n - 1)

\* the binding of the test key k after the keys "0", ..., "n-1" were put: <<>>
\* when k is not among them, else the one-element sequence of its value
StartBinding(k, n) ==
    IF \E i \in 0..(n - 1) : Numeral(i) = k
    THEN <<BulkValue(CHOOSE i \in 0..(n - 1) : Numeral(i) = k)>>
    ELSE <<>>

NoOp == [name |-> "new", key |-> <<>>, value |-> NULL, alloc |-> AllocOK]

Init ==
    \E signed \in BOOLEAN, n \in StartLengths, alloc \in {"ok", "table", "buckets"} :
        /\ alloc # "ok" => n = 0
        /\ charIsSigned = signed
        /\ ref = SymTable_new(alloc).ref
        /\ status = "running"
        /\ op = NoOp
        /\ retH = NULL
        /\ retL = NULL
        /\ calls = <<>>
        /\ IF alloc = "ok"
           THEN LET st == Started(n)
                IN  /\ hashT = st.h
                    /\ listT = st.l
                    /\ preH = st.h
                    /\ hist = [freshPuts   |-> TRUE,
                               puts        |-> st.log,
                               allocFailed |-> FALSE,
                               calls       |-> 0,
                               bound       |-> [k \in TestKeys |-> StartBinding(k, n)],
                               was         |-> <<>>]
           ELSE /\ hashT = SymTable_new(alloc).t
                /\ listT = List_new(alloc).t
                /\ preH = SymTable_new(alloc).t
                /\ hist = [freshPuts   |-> FALSE,
                           puts        |-> <<>>,
                           allocFailed |-> TRUE,
                           calls       |-> 0,
                           bound       |-> [k \in TestKeys |-> <<>>],
                           was         |-> <<>>]

-----------------------------------------------------------------------------
(* The calls.  Every function of symtable.h asserts oSymTable != NULL first.  *)

\* the failed assert(oSymTable != NULL) of a call
AssertFails(name, k, v) ==
    /\ status' = "aborted"
    /\ op' = [name |-> name, key |-> k, value |-> v, alloc |-> AllocOK]
    /\ hist' = [hist EXCEPT !.calls = @ + 1]
    /\ UNCHANGED <<charIsSigned, ref, hashT, listT, retH, retL, preH, calls>>

Callable == status = "running" /\ ref \in {"live", "NULL"} /\ hist.calls < MaxCalls

\* the allocation outcomes a put can meet: calloc is called when growth is
\* attempted, malloc when the key is not found
AllocChoices(t, pcKey) ==
    {[calloc |-> c, malloc |-> m] :
        c \in (IF GrowthAttempted(t) THEN BOOLEAN ELSE {TRUE}),
        m \in (IF SymTable_contains(t, pcKey) = 1 THEN {"ok"}
                                                   ELSE {"ok", "node", "key"})}

PutKeys(log) == {log[i].key : i \in 1..Len(log)}

Put(k, v) ==
    /\ Callable
    /\ IF ref = "NULL" THEN AssertFails("put", k, v)
       ELSE \E alloc \in AllocChoices(hashT, k) :
            LET h     == SymTable_put(hashT, k, v, alloc)
                l     == List_put(listT, k, v, alloc)
                fresh == /\ hist.freshPuts
                         /\ alloc = AllocOK
                         /\ k \notin PutKeys(hist.puts)
            IN  /\ hashT' = h.t
                /\ listT' = l.t
                /\ retH' = h.ret
                /\ retL' = l.ret
                /\ preH' = hashT
                /\ op' = [name |-> "put", key |-> k, value |-> v, alloc |-> alloc]
                /\ calls' = <<>>
                /\ hist' = [freshPuts   |-> fresh,
                            puts        |-> IF fresh
                                            THEN Append(hist.puts, PutRecord(k, v, h.ret))
                                            ELSE <<>>,
                            allocFailed |-> hist.allocFailed \/ alloc # AllocOK,
                            calls       |-> hist.calls + 1,
                            bound       |-> IF hist.bound[k] = <<>> /\ alloc.malloc = "ok"
                                            THEN [hist.bound EXCEPT ![k] = <<v>>]
                                            ELSE hist.bound,
                            was         |-> hist.bound[k]]
                /\ UNCHANGED <<charIsSigned, ref, status>>

\* a call other than put ends a history of puts only
NotOnlyPuts ==
    [hist EXCEPT !.freshPuts = FALSE, !.puts = <<>>, !.calls = @ + 1, !.was = <<>>]

Replace(k, v) ==
    /\ Callable
    /\ IF ref = "NULL" THEN AssertFails("replace", k, v)
       ELSE LET h == SymTable_replace(hashT, k, v)
                l == List_replace(listT, k, v)
            IN  /\ hashT' = h.t
                /\ listT' = l.t
                /\ retH' = h.ret
                /\ retL' = l.ret
                /\ preH' = hashT
                /\ op' = [name |-> "replace", key |-> k, value |-> v, alloc |-> AllocOK]
                /\ calls' = <<>>
                /\ hist' = [NotOnlyPuts EXCEPT
                               !.bound[k] = IF @ = <<>> THEN @ ELSE <<v>>,
                               !.was = hist.bound[k]]
                /\ UNCHANGED <<charIsSigned, ref, status>>

Contains(k) ==
    /\ Callable
    /\ IF ref = "NULL" THEN AssertFails("contains", k, NULL)
       ELSE /\ retH' = SymTable_contains(hashT, k)
            /\ retL' = List_contains(listT, k)
            /\ preH' = hashT
            /\ op' = [name |-> "contains", key |-> k, value |-> NULL, alloc |-> AllocOK]
            /\ calls' = <<>>
            /\ hist' = NotOnlyPuts
            /\ UNCHANGED <<charIsSigned, ref, status, hashT, listT>>

Get(k) ==
    /\ Callable
    /\ IF ref = "NULL" THEN AssertFails("get", k, NULL)
       ELSE /\ retH' = SymTable_get(hashT, k)
            /\ retL' = List_get(listT, k)
            /\ preH' = hashT
            /\ op' = [name |-> "get", key |-> k, value |-> NULL, alloc |-> AllocOK]
            /\ calls' = <<>>
            /\ hist' = NotOnlyPuts
            /\ UNCHANGED <<charIsSigned, ref, status, hashT, listT>>

Remove(k) ==
    /\ Callable
    /\ IF ref = "NULL" THEN AssertFails("remove", k, NULL)
       ELSE LET h == SymTable_remove(hashT, k)
                l == List_remove(listT, k)
            IN  /\ hashT' = h.t
                /\ listT' = l.t
                /\ retH' = h.ret
                /\ retL' = l.ret
                /\ preH' = hashT
                /\ op' = [name |-> "remove", key |-> k, value |-> NULL, alloc |-> AllocOK]
                /\ calls' = <<>>
                /\ hist' = [NotOnlyPuts EXCEPT !.bound[k] = <<>>, !.was = hist.bound[k]]
                /\ UNCHANGED <<charIsSigned, ref, status>>

GetLength ==
    /\ Callable
    /\ IF ref = "NULL" THEN AssertFails("getLength", <<>>, NULL)
       ELSE /\ retH' = SymTable_getLength(hashT)
            /\ retL' = List_getLength(listT)
            /\ preH' = hashT
            /\ op' = [name |-> "getLength", key |-> <<>>, value |-> NULL, alloc |-> AllocOK]
            /\ calls' = <<>>
            /\ hist' = NotOnlyPuts
            /\ UNCHANGED <<charIsSigned, ref, status, hashT, listT>>

\* SymTable_map with a callback that records its arguments; pvExtra is a handle
Map(pvExtra) ==
    /\ Callable
    /\ IF ref = "NULL" THEN AssertFails("map", <<>>, pvExtra)
       ELSE /\ calls' = SymTable_map(hashT, pvExtra)
            /\ retH' = NULL
            /\ retL' = NULL
            /\ preH' = hashT
            /\ op' = [name |-> "map", key |-> <<>>, value |-> pvExtra, alloc |-> AllocOK]
            /\ hist' = NotOnlyPuts
            /\ UNCHANGED <<charIsSigned, ref, status, hashT, listT>>

\* SymTable_free: every Binding, the bucket array and the table are freed
Free ==
    /\ Callable
    /\ IF ref = "NULL" THEN AssertFails("free", <<>>, NULL)
       ELSE /\ ref' = "freed"
            /\ hashT' = NoHashTable
            /\ listT' = NoListTable
            /\ retH' = NULL
            /\ retL' = NULL
            /\ preH' = hashT
            /\ op' = [name |-> "free", key |-> <<>>, value |-> NULL, alloc |-> AllocOK]
            /\ calls' = <<>>
            /\ hist' = NotOnlyPuts
            /\ UNCHANGED <<charIsSigned, status>>

Next ==
    \/ \E k \in TestKeys, v \in Values : Put(k, v)
    \/ \E k \in TestKeys, v \in Values : Replace(k, v)
    \/ \E k \in TestKeys : Contains(k)
    \/ \E k \in TestKeys : Get(k)
    \/ \E k \in TestKeys : Remove(k)
    \/ GetLength
    \/ \E x \in Values : Map(x)
    \/ Free

Spec == Init /\ [][Next]_vars

-----------------------------------------------------------------------------
(* The claims.                                                               *)

\* the last call was `name`, made on a live table, and it returned
Did(name) == status = "running" /\ op.name = name /\ ref = "live"

Bound(t, k) == SymTable_contains(t, k) = 1

\* every key other than k has in table t the binding it has in table u
OthersSame(t, u, k) ==
    \A j \in AllKeys \ {k} :
        /\ SymTable_contains(t, j) = SymTable_contains(u, j)
        /\ SymTable_get(t, j) = SymTable_get(u, j)

\* the keys of the Bindings of the chains of t
KeysOf(t) ==
    LET bs == AllBindings(t)
    IN  {bs[i].key : i \in 1..Len(bs)}

\* C1: after puts of pairwise distinct keys on a new table, with no
\* allocation failure, every put has returned 1, the length is the number of
\* puts, and every key put is contained and bound to the value of its put.
C1_DistinctPuts ==
    (ref = "live" /\ hist.freshPuts) =>
        /\ SymTable_getLength(hashT) = Len(hist.puts)
        /\ \A i \in 1..Len(hist.puts) :
            /\ hist.puts[i].ret = 1
            /\ SymTable_contains(hashT, hist.puts[i].key) = 1
            /\ SymTable_get(hashT, hist.puts[i].key) = hist.puts[i].value

\* distinct puts only, two of them on the table of 510 bindings: the first of
\* the two has grown the bucket array
C1_Witness ==
    /\ ref = "live"
    /\ hist.freshPuts
    /\ Len(hist.puts) = primeBuckCounts[1] + 3
    /\ hashT.numBuckets = primeBuckCounts[2]

\* C2: a put of a key that is bound returns 0 and changes neither the length
\* nor the value of that key or of any other key.
C2_DuplicatePut ==
    (Did("put") /\ Bound(preH, op.key)) =>
        /\ retH = 0
        /\ SymTable_getLength(hashT) = SymTable_getLength(preH)
        /\ SymTable_contains(hashT, op.key) = 1
        /\ SymTable_get(hashT, op.key) = SymTable_get(preH, op.key)
        /\ hist.bound[op.key] = <<SymTable_get(hashT, op.key)>>
        /\ OthersSame(hashT, preH, op.key)

\* a put of a bound key with another value than the one bound, in a call
\* that grew the bucket array
C2_Witness ==
    /\ Did("put")
    /\ Bound(preH, op.key)
    /\ op.value # SymTable_get(preH, op.key)
    /\ hashT.numBuckets # preH.numBuckets

\* C3: a replace of a bound key returns the value most recently bound to it
\* by a put or a replace, binds the key to the new value, and changes neither
\* the length nor any other key.
C3_Replace ==
    (Did("replace") /\ Bound(preH, op.key)) =>
        /\ hist.was = <<retH>>
        /\ SymTable_get(hashT, op.key) = op.value
        /\ SymTable_contains(hashT, op.key) = 1
        /\ SymTable_getLength(hashT) = SymTable_getLength(preH)
        /\ OthersSame(hashT, preH, op.key)

\* the second of two calls on the table of 510 bindings, a replace that
\* returns neither what it binds nor what the key was bound to at the start:
\* it returns what the replace before it bound
C3_Witness ==
    /\ Did("replace")
    /\ Bound(preH, op.key)
    /\ hist.calls = 2
    /\ SymTable_getLength(hashT) = primeBuckCounts[1] + 1
    /\ hist.was = <<retH>>
    /\ retH # op.value
    /\ <<retH>> # StartBinding(op.key, primeBuckCounts[1] + 1)

\* C4: a remove of a bound key returns the value stored for it; the key is
\* then not contained, the length is one less, and every other binding is as
\* it was, wherever in its chain the Binding stood.
C4_Remove ==
    (Did("remove") /\ Bound(preH, op.key)) =>
        /\ retH = SymTable_get(preH, op.key)
        /\ hist.was = <<retH>>
        /\ SymTable_contains(hashT, op.key) = 0
        /\ SymTable_getLength(hashT) = SymTable_getLength(preH) - 1
        /\ Len(AllBindings(hashT)) = Len(AllBindings(preH)) - 1
        /\ OthersSame(hashT, preH, op.key)

\* the chain of the key in the table t
ChainOf(t, k) == t.buckets[SymTable_hash(k, t.numBuckets)]

\* a remove of a Binding that had a predecessor and a successor in its chain
C4_Witness ==
    /\ Did("remove")
    /\ Bound(preH, op.key)
    /\ FindBinding(ChainOf(preH, op.key), op.key) > 1
    /\ FindBinding(ChainOf(preH, op.key), op.key) < Len(ChainOf(preH, op.key))

\* a remove of the first Binding of a chain of several
C4_WitnessHead ==
    /\ Did("remove")
    /\ FindBinding(ChainOf(preH, op.key), op.key) = 1
    /\ Len(ChainOf(preH, op.key)) > 1

\* C5: replace and remove of a key that is not bound return NULL and leave
\* the table as it was: length, chains with their keys and values, bucket
\* count.
C5_MissingKey ==
    ((Did("replace") \/ Did("remove")) /\ ~Bound(preH, op.key)) =>
        /\ retH = NULL
        /\ hashT = preH

\* a remove of a key that is not bound, its bucket holding other Bindings
C5_Witness ==
    /\ Did("remove")
    /\ ~Bound(preH, op.key)
    /\ Len(ChainOf(preH, op.key)) > 1

\* a replace of a key that is not bound, its bucket holding other Bindings
C5_WitnessReplace ==
    /\ Did("replace")
    /\ ~Bound(preH, op.key)
    /\ Len(ChainOf(preH, op.key)) > 1

\* C6: a put that grows the bucket array keeps every key bound before with
\* its value, has every key in one Binding at most, and changes the length
\* by its own insertion only.
C6_Growth ==
    (Did("put") /\ hashT.numBuckets # preH.numBuckets) =>
        /\ \A k \in AllKeys :
            /\ Bound(preH, k) =>
                /\ Bound(hashT, k)
                /\ SymTable_get(hashT, k) = SymTable_get(preH, k)
            /\ (Bound(hashT, k) /\ ~Bound(preH, k)) => (k = op.key /\ retH = 1)
        /\ LET before == KeysOf(preH)
               after  == KeysOf(hashT)
           IN  /\ Cardinality(after) = Len(AllBindings(hashT))
               /\ before \subseteq after
               /\ after \subseteq before \cup {op.key}
        /\ SymTable_getLength(hashT) = SymTable_getLength(preH) + retH
        /\ Len(AllBindings(hashT)) = Len(AllBindings(preH)) + retH

\* a put of a new key that grew the bucket array from 509 to 1021
C6_Witness ==
    /\ Did("put")
    /\ retH = 1
    /\ preH.numBuckets = primeBuckCounts[1]
    /\ hashT.numBuckets = primeBuckCounts[2]
    /\ SymTable_getLength(preH) > primeBuckCounts[1]

\* C7: a put that fails to allocate the Binding or the key copy returns 0 and
\* leaves the table as it was: bindings, values, length, bucket count and
\* bucket array.
C7_FailedPutUnchanged ==
    (Did("put") /\ op.alloc.malloc \in {"node", "key"}) =>
        /\ retH = 0
        /\ hashT = preH

\* what does hold: the bindings, the values and the length are unchanged
C7_FailedPutBindings ==
    (Did("put") /\ op.alloc.malloc \in {"node", "key"}) =>
        /\ retH = 0
        /\ SymTable_getLength(hashT) = SymTable_getLength(preH)
        /\ \A k \in AllKeys :
            /\ SymTable_contains(hashT, k) = SymTable_contains(preH, k)
            /\ SymTable_get(hashT, k) = SymTable_get(preH, k)

\* C8: SymTable_map on a table of N bindings calls pfApply N times, once for
\* each bound key, with the value bound to it and the caller's pvExtra, and
\* leaves the table as it was.
C8_Map ==
    Did("map") =>
        /\ Len(calls) = SymTable_getLength(preH)
        /\ {calls[i][1] : i \in 1..Len(calls)} = {k \in AllKeys : Bound(preH, k)}
        /\ Cardinality({calls[i][1] : i \in 1..Len(calls)}) = Len(calls)
        /\ \A i \in 1..Len(calls) :
            /\ calls[i][2] = SymTable_get(preH, calls[i][1])
            /\ calls[i][3] = op.value
        /\ hashT = preH

\* a traversal of more than 509 bindings in 1021 buckets
C8_Witness ==
    /\ Did("map")
    /\ Len(calls) > primeBuckCounts[1]
    /\ hashT.numBuckets = primeBuckCounts[2]

\* C9: while no allocation has failed, every call of put, replace, contains,
\* get, remove and getLength returns the same in both implementations.
C9_SameResults ==
    (ref = "live" /\ status = "running" /\ ~hist.allocFailed
        /\ op.name \in {"put", "replace", "contains", "get", "remove", "getLength"}) =>
        retH = retL

\* a remove that returns a value, from the list and from the grown hash table
C9_Witness ==
    /\ Did("remove")
    /\ ~hist.allocFailed
    /\ hist.was # <<>>
    /\ retH = retL
    /\ retH # NULL
    /\ hashT.numBuckets = primeBuckCounts[2]

\* C10: SymTable_free of a NULL table reference returns without aborting
\* and touches nothing.
C10_FreeNullNoOp ==
    (op.name = "free" /\ ref = "NULL") => status = "running"

-----------------------------------------------------------------------------
(* Large tables.  A table of more than 65521 bindings is too large to keep   *)
(* its chains here, and SymTable_put and SymTable_remove read the chains     *)
(* only to find whether the key is bound.  Of a large table the model keeps  *)
(* the fields length and numBuckets, and takes whether the key is found as   *)
(* an input of the call.                                                     *)

\* length and numBuckets after SymTable_new
Size_new == [length |-> 0, numBuckets |-> primeBuckCounts[1]]

\* SymTable_expand on the two fields
Size_expand(h, callocOK) ==
    LET index         == ExpandIndex(1, h.numBuckets)
        newNumBuckets == primeBuckCounts[index + 1]
    IN  IF ~callocOK THEN h
        ELSE [h EXCEPT !.numBuckets = newNumBuckets]

\* SymTable_put on the two fields: found is whether the chain holds pcKey
Size_put(h, found, alloc) ==
    LET e == IF GrowthAttempted(h) THEN Size_expand(h, alloc.calloc) ELSE h
    IN  IF found THEN [t |-> e, ret |-> 0]
        ELSE IF alloc.malloc = "node" THEN [t |-> e, ret |-> 0]
        ELSE IF alloc.malloc = "key" THEN [t |-> e, ret |-> 0]
        ELSE [t |-> [e EXCEPT !.length = @ + 1], ret |-> 1]

\* SymTable_remove on the two fields
Size_remove(h, found) ==
    IF found THEN [h EXCEPT !.length = @ - 1] ELSE h

\* the two fields of a table t that keeps its chains
SizeOf(t) == [length |-> t.length, numBuckets |-> t.numBuckets]

\* hi - lo + 1 puts of keys not bound, none failing to allocate
RECURSIVE SizePutAll(_, _, _)
SizePutAll(h, lo, hi) ==
    IF lo > hi THEN h
    ELSE IF lo = hi THEN Size_put(h, FALSE, AllocOK).t
    ELSE LET mid   == (lo + hi) \div 2
             first == SizePutAll(h, lo, mid)
         IN  \* the test has TLC finish the first half before it starts the second
             IF first.length >= 0 THEN SizePutAll(first, mid + 1, hi) ELSE first

\* the two fields after n distinct keys were put into a new table
StartedSize(n) == SizePutAll(Size_new, 1, n)

\* one binding more than each bucket count of the sequence: the next put
\* finds length > numBuckets
BoundaryLengths == {primeBuckCounts[i] + 1 : i \in 1..Len(primeBuckCounts)}

LargeInit ==
    \E signed \in BOOLEAN, n \in BoundaryLengths :
        /\ charIsSigned = signed
        /\ ref = "large"
        /\ status = "running"
        /\ op = NoOp
        /\ retH = NULL
        /\ retL = NULL
        /\ calls = <<>>
        /\ hashT = StartedSize(n)
        /\ preH = StartedSize(n)
        \* the list implementation has no bucket count: it is not followed here
        /\ listT = NoListTable
        /\ hist = [freshPuts   |-> FALSE,
                   puts        |-> <<>>,
                   allocFailed |-> FALSE,
                   calls       |-> 0,
                   bound       |-> [k \in TestKeys |-> <<>>],
                   was         |-> <<>>]

LargeCallable == status = "running" /\ ref = "large" /\ hist.calls < MaxCalls

\* SymTable_put on a large table; a key can be found when a key is bound
LargePut(found) ==
    /\ LargeCallable
    /\ found => hashT.length > 0
    /\ \E c \in (IF GrowthAttempted(hashT) THEN BOOLEAN ELSE {TRUE}),
          m \in (IF found THEN {"ok"} ELSE {"ok", "node", "key"}) :
            LET alloc == [calloc |-> c, malloc |-> m]
                h     == Size_put(hashT, found, alloc)
            IN  /\ hashT' = h.t
                /\ retH' = h.ret
                /\ preH' = hashT
                /\ op' = [name |-> "put", key |-> <<>>, value |-> NULL,
                          alloc |-> alloc, found |-> found]
                /\ hist' = [hist EXCEPT !.calls = @ + 1,
                                        !.allocFailed = @ \/ alloc # AllocOK]
                /\ UNCHANGED <<charIsSigned, ref, listT, retL, calls, status>>

\* SymTable_remove on a large table: it returns the value of the Binding it
\* finds, which can be any handle
LargeRemove(found) ==
    /\ LargeCallable
    /\ found => hashT.length > 0
    /\ hashT' = Size_remove(hashT, found)
    /\ retH' \in (IF found THEN Values ELSE {NULL})
    /\ preH' = hashT
    /\ op' = [name |-> "remove", key |-> <<>>, value |-> NULL,
              alloc |-> AllocOK, found |-> found]
    /\ hist' = [hist EXCEPT !.calls = @ + 1]
    /\ UNCHANGED <<charIsSigned, ref, listT, retL, calls, status>>

GrowthInit == Init \/ LargeInit

GrowthNext ==
    \/ Next
    \/ \E found \in BOOLEAN : LargePut(found)
    \/ \E found \in BOOLEAN : LargeRemove(found)

\* the tables that keep their chains and the large tables together
GrowthSpec == GrowthInit /\ [][GrowthNext]_vars

-----------------------------------------------------------------------------
(* SymTable_hash alone: one call with a key and a bucket count.              *)

\* the bytes of the keys: the lowest and the highest a C string can hold, a
\* letter, and the lowest with the high bit set
HashBytes == {1, 97, 128, 255}

HashKeys == UNION {[1..k -> HashBytes] : k \in 0..MaxKeyLen}

HashCounts == {primeBuckCounts[i] : i \in 1..Len(primeBuckCounts)}

\* the call about to be made: op holds its arguments
HashInit ==
    \E signed \in BOOLEAN, pcKey \in HashKeys, uBucketCount \in HashCounts :
        /\ charIsSigned = signed
        /\ op = [name |-> "hashArgs", key |-> pcKey, value |-> NULL,
                 alloc |-> AllocOK, uBucketCount |-> uBucketCount]
        /\ retH = NULL
        /\ retL = NULL
        /\ ref = "NULL"
        /\ status = "running"
        /\ calls = <<>>
        /\ hashT = NoHashTable
        /\ preH = NoHashTable
        /\ listT = NoListTable
        /\ hist = [freshPuts   |-> FALSE,
                   puts        |-> <<>>,
                   allocFailed |-> FALSE,
                   calls       |-> 0,
                   bound       |-> [k \in TestKeys |-> <<>>],
                   was         |-> <<>>]

\* the call returns
Hash ==
    /\ op.name = "hashArgs"
    /\ op' = [op EXCEPT !.name = "hash"]
    /\ retH' = HashValue(op.key, op.uBucketCount, charIsSigned)
    /\ hist' = [hist EXCEPT !.calls = @ + 1]
    /\ UNCHANGED <<charIsSigned, ref, hashT, listT, retL, preH, calls, status>>

HashNext == Hash

HashSpec == HashInit /\ [][HashNext]_vars

-----------------------------------------------------------------------------
(* Growth policy and structure of the hash table.                            *)

\* C11 as stated: after 510 puts of distinct keys on a new table, with no
\* allocation failure, the table has 1021 buckets.
C11_GrownAfter510 ==
    (ref = "live" /\ hist.freshPuts /\ Len(hist.puts) = primeBuckCounts[1] + 1) =>
        hashT.numBuckets = primeBuckCounts[2]

\* C11 amended: after up to 510 puts of distinct keys on a new table, with no
\* allocation failure, the table still has 509 buckets; it has 1021 after the
\* 511th, the first put to find length > 509 when it is called.
C11_GrownAfter511 ==
    (ref = "live" /\ hist.freshPuts) =>
        /\ Len(hist.puts) <= primeBuckCounts[1] + 1 =>
                hashT.numBuckets = primeBuckCounts[1]
        /\ Len(hist.puts) = primeBuckCounts[1] + 2 =>
                hashT.numBuckets = primeBuckCounts[2]

\* the state after the 511th put: it found 509 buckets and left 1021
C11_Witness ==
    /\ Did("put")
    /\ hist.freshPuts
    /\ Len(hist.puts) = primeBuckCounts[1] + 2
    /\ preH.numBuckets = primeBuckCounts[1]
    /\ hashT.numBuckets = primeBuckCounts[2]

\* the last call was `name` and returned, on a table that keeps its chains or
\* on a large table
DidOnAny(name) == status = "running" /\ op.name = name /\ ref \in {"live", "large"}

\* the sequence of bucket counts as the claims give it
ClaimedCounts == <<509, 1021, 2039, 4093, 8191, 16381, 32749, 65521>>

\* on a table that keeps its chains, length and numBuckets after a put are
\* what Size_put gives for them
SizesAgree ==
    Did("put") =>
        /\ SizeOf(hashT) = Size_put(SizeOf(preH), Bound(preH, op.key), op.alloc).t
        /\ retH = Size_put(SizeOf(preH), Bound(preH, op.key), op.alloc).ret

\* C12: a put changes the bucket count exactly when it found length greater
\* than the bucket count, the bucket count below 65521, and the new bucket
\* array allocated; the new count is then the next of the sequence.  No other
\* call changes the bucket count.
C12_BucketCountChange ==
    /\ DidOnAny("put") =>
            LET grows == /\ preH.length > preH.numBuckets
                         /\ preH.numBuckets < 65521
                         /\ op.alloc.calloc
            IN  /\ (hashT.numBuckets # preH.numBuckets) <=> grows
                /\ grows => \E i \in 1..(Len(ClaimedCounts) - 1) :
                                /\ preH.numBuckets = ClaimedCounts[i]
                                /\ hashT.numBuckets = ClaimedCounts[i + 1]
    /\ (status = "running" /\ ref \in {"live", "large"}
            /\ op.name \notin {"put", "new"}) =>
            hashT.numBuckets = preH.numBuckets
    /\ SizesAgree

\* a put on a table of 65521 buckets and more bindings: there is no growth,
\* and the key is inserted
C12_Witness ==
    /\ DidOnAny("put")
    /\ preH.numBuckets = 65521
    /\ preH.length > 65521
    /\ op.alloc.calloc
    /\ hashT.numBuckets = 65521
    /\ retH = 1
    /\ hashT.length = preH.length + 1

\* a put that grew the bucket array from 32749 buckets to 65521
C12_WitnessLastGrowth ==
    /\ DidOnAny("put")
    /\ preH.numBuckets = 32749
    /\ hashT.numBuckets = 65521

\* C13: a put of a key that is bound attempts no growth: the bucket count,
\* the bucket array and the order of every chain are as they were, also when
\* the call found length greater than the bucket count.
C13_DuplicatePutNoGrowth ==
    (Did("put") /\ Bound(preH, op.key)) =>
        /\ hashT.numBuckets = preH.numBuckets
        /\ hashT.buckets = preH.buckets

\* C14: when the calloc of the new bucket array fails, the bucket count and
\* the chains stay as they were and the put goes on as if no growth had been
\* due: it inserts the key at the head of its chain and returns 1 when the
\* key is not bound and its own allocations succeed, and changes nothing
\* otherwise.  The next put finds the growth condition true again.
C14_GrowthFailureSilent ==
    (Did("put") /\ ~op.alloc.calloc) =>
        LET inserted == ~Bound(preH, op.key) /\ op.alloc.malloc = "ok"
            bucket   == SymTable_hash(op.key, preH.numBuckets)
        IN  /\ hashT.numBuckets = preH.numBuckets
            /\ inserted =>
                    /\ retH = 1
                    /\ hashT.length = preH.length + 1
                    /\ hashT.buckets =
                           [preH.buckets EXCEPT
                               ![bucket] = <<Binding(op.key, op.value)>> \o @]
            /\ ~inserted => (retH = 0 /\ hashT = preH)
            /\ hashT.length > hashT.numBuckets
            /\ GrowthAttempted(hashT)

\* a put whose growth failed and which inserted its key
C14_Witness ==
    /\ Did("put")
    /\ ~op.alloc.calloc
    /\ retH = 1
    /\ hashT.numBuckets = preH.numBuckets
    /\ Len(ChainOf(hashT, op.key)) > 1

\* the put after it: it grew the bucket array of the 511 bindings
C14_WitnessRetry ==
    /\ Did("put")
    /\ hist.calls = 2
    /\ hist.allocFailed
    /\ op.alloc = AllocOK
    /\ preH.length = primeBuckCounts[1] + 2
    /\ preH.numBuckets = primeBuckCounts[1]
    /\ hashT.numBuckets = primeBuckCounts[2]

\* the bucket of the i-th call of pfApply in the last SymTable_map
CallBucket(i) == SymTable_hash(calls[i][1], hashT.numBuckets)

\* how many bound keys were put after k: the list implementation links every
\* new Binding before all others, so its list is the bound keys with the most
\* recently put first
PutsSince(k) == FindBinding(listT.firstBinding, k)

\* the calls of pfApply go through the buckets in ascending order
BucketsAscending ==
    \A i \in 1..(Len(calls) - 1) : CallBucket(i) <= CallBucket(i + 1)

\* within every bucket the calls of pfApply go from the key put last to the
\* key put first
LatestFirst ==
    \A i \in 1..(Len(calls) - 1) :
        CallBucket(i) = CallBucket(i + 1) =>
            PutsSince(calls[i][1]) < PutsSince(calls[i + 1][1])

\* C15 as stated: SymTable_map visits the buckets in ascending order and
\* within each bucket the bindings from the most recently put to the least,
\* in every state.
C15_MapOrder ==
    Did("map") => (BucketsAscending /\ LatestFirst)

\* C15 amended: SymTable_map visits the buckets in ascending order and each
\* chain from its head; the chain goes from the most recently put to the
\* least while the table has its first bucket array of 509.
C15_MapOrderBeforeGrowth ==
    Did("map") =>
        /\ BucketsAscending
        /\ LET bs == AllBindings(hashT)
           IN  calls = [i \in 1..Len(bs) |-> <<bs[i].key, bs[i].value, op.value>>]
        /\ hashT.numBuckets = primeBuckCounts[1] => LatestFirst

\* a traversal of 511 bindings in 509 buckets, the key put by the call before
\* it at the head of a chain of three
C15_Witness ==
    /\ Did("map")
    /\ hashT.numBuckets = primeBuckCounts[1]
    /\ hashT.length = primeBuckCounts[1] + 2
    /\ \E k \in TestKeys :
        /\ Len(ChainOf(hashT, k)) >= 3
        /\ FindBinding(ChainOf(hashT, k), k) = 1
        /\ PutsSince(k) = 1

\* C16: in every state of a live hash table the bucket array has numBuckets
\* buckets and every Binding of the chain of bucket b has a key whose hash
\* under numBuckets is b.
C16_BindingsInTheirBucket ==
    (ref = "live" /\ status = "running") =>
        /\ DOMAIN hashT.buckets = 0..(hashT.numBuckets - 1)
        /\ \A b \in DOMAIN hashT.buckets :
            \A i \in 1..Len(hashT.buckets[b]) :
                SymTable_hash(hashT.buckets[b][i].key, hashT.numBuckets) = b

\* a table grown to 1021 buckets by the first of two calls, holding the key
\* of the byte 200 on a build where char is signed
C16_Witness ==
    /\ ref = "live"
    /\ status = "running"
    /\ charIsSigned
    /\ hist.calls = 2
    /\ preH.numBuckets = primeBuckCounts[2]
    /\ hashT.numBuckets = primeBuckCounts[2]
    /\ Bound(hashT, <<200>>)

\* C17: in every state of a live table no two Bindings have the same key, in
\* the chains of the hash table and in the list of the list implementation.
C17_KeysUnique ==
    (ref = "live" /\ status = "running") =>
        /\ Cardinality(KeysOf(hashT)) = Len(AllBindings(hashT))
        /\ Cardinality({listT.firstBinding[i].key : i \in 1..Len(listT.firstBinding)})
               = Len(listT.firstBinding)

\* a put that grew the bucket array and then found its key, which the call
\* before it had put in the array of 509 buckets
C17_Witness ==
    /\ Did("put")
    /\ hist.calls = 2
    /\ retH = 0
    /\ hist.was # <<>>
    /\ hist.was # StartBinding(op.key, primeBuckCounts[1] + 1)
    /\ preH.numBuckets = primeBuckCounts[1]
    /\ hashT.numBuckets = primeBuckCounts[2]

\* C18: in every state of a live table length is the number of Bindings in
\* the chains and is not negative; a call changes it by +1 when it is a put
\* that returns 1, by -1 when it is a remove of a bound key, and not at all
\* otherwise.
C18_LengthIsBindingCount ==
    (ref = "live" /\ status = "running") =>
        /\ SymTable_getLength(hashT) = Len(AllBindings(hashT))
        /\ SymTable_getLength(hashT) >= 0
        /\ List_getLength(listT) = Len(listT.firstBinding)
        /\ op.name # "new" =>
            SymTable_getLength(hashT) - SymTable_getLength(preH) =
                IF op.name = "put" /\ retH = 1 THEN 1
                ELSE IF op.name = "remove" /\ Bound(preH, op.key) THEN 0 - 1
                ELSE 0

\* a remove on a table without bindings: length stays 0
C18_Witness ==
    /\ Did("remove")
    /\ SymTable_getLength(preH) = 0
    /\ SymTable_getLength(hashT) = 0

\* a remove of the key the call before it put, a put that grew the array
C18_WitnessPutRemove ==
    /\ Did("remove")
    /\ hist.calls = 2
    /\ hashT.numBuckets = primeBuckCounts[2]
    /\ SymTable_getLength(preH) = primeBuckCounts[1] + 2
    /\ SymTable_getLength(hashT) = primeBuckCounts[1] + 1

\* the bucket counts of ClaimedCounts, as a set
ClaimedCountSet == {ClaimedCounts[i] : i \in 1..Len(ClaimedCounts)}

\* C19: the table SymTable_new returns has length 0, 509 buckets and every
\* bucket empty; in every state the bucket count is one of the sequence and
\* not less than it was before the last call, whatever the call.
C19_BucketCountOfSequence ==
    /\ (ref = "live" /\ hist.calls = 0 /\ hist.puts = <<>>) =>
            /\ hashT.length = 0
            /\ hashT.numBuckets = 509
            /\ DOMAIN hashT.buckets = 0..508
            /\ \A b \in DOMAIN hashT.buckets : hashT.buckets[b] = <<>>
    /\ (ref \in {"live", "large"} /\ status = "running") =>
            /\ hashT.numBuckets \in ClaimedCountSet
            /\ hashT.numBuckets >= preH.numBuckets
            /\ hashT.numBuckets >= 509

\* a remove of a bound key from a table that has grown
C19_Witness ==
    /\ DidOnAny("remove")
    /\ hashT.length < preH.length
    /\ hashT.numBuckets > 509
    /\ hashT.numBuckets = preH.numBuckets

\* the table as SymTable_new returned it
C19_WitnessNew ==
    /\ ref = "live"
    /\ hist.calls = 0
    /\ hist.puts = <<>>
    /\ hashT.numBuckets = 509

\* a remove that brings a table of 1021 buckets down to 1021 bindings
C19_WitnessBelowThreshold ==
    /\ DidOnAny("remove")
    /\ hashT.numBuckets = 1021
    /\ hashT.length = 1021

\* The hash as the claims give it, in hexadecimal digits, the least
\* significant first: 16 digits are the 64 bits of size_t.

\* what a byte b adds to the hash: its value, or, when it is taken as a
\* negative char, its value less 256 modulo 2^64
Contribution(b, negative) ==
    [i \in 1..16 |->
        IF i = 1 THEN b % 16
        ELSE IF i = 2 THEN b \div 16
        ELSE IF negative THEN 15 ELSE 0]

\* the digits i.. of h * 65599 + a + carry modulo 2^64
RECURSIVE FoldStep(_, _, _, _)
FoldStep(h, a, i, carry) ==
    IF i > 16 THEN <<>>
    ELSE LET t == h[i] * 65599 + a[i] + carry
         IN  <<t % 16>> \o FoldStep(h, a, i + 1, t \div 16)

\* the fold over the bytes u.. of the key, left to right
RECURSIVE Fold(_, _, _, _)
Fold(key, u, h, signed) ==
    IF u > Len(key) THEN h
    ELSE Fold(key, u + 1,
              FoldStep(h, Contribution(key[u], signed /\ key[u] >= 128), 1, 0),
              signed)

\* h mod n
RECURSIVE FoldMod(_, _, _, _)
FoldMod(h, i, n, r) ==
    IF i = 0 THEN r ELSE FoldMod(h, i - 1, n, (r * 16 + h[i]) % n)

FoldedHash(key, n, signed) ==
    FoldMod(Fold(key, 1, [i \in 1..16 |-> 0], signed), 16, n, 0)

\* C20 as stated: the hash is the fold of h * 65599 + byte over the byte
\* values of the key, modulo 2^64, then modulo the bucket count, and lies in
\* [0, n).
C20_HashIsByteFold ==
    op.name = "hash" =>
        /\ retH = FoldedHash(op.key, op.uBucketCount, FALSE)
        /\ retH >= 0
        /\ retH < op.uBucketCount

\* C20 amended: each byte adds the value of the char it is: its byte value
\* when that is below 128 or char is unsigned, its byte value less 256 when
\* char is signed.  The result lies in [0, n).
C20_HashIsCharFold ==
    op.name = "hash" =>
        /\ retH = FoldedHash(op.key, op.uBucketCount, charIsSigned)
        /\ retH >= 0
        /\ retH < op.uBucketCount

\* a key with a byte above 127 on a build where char is signed, its hash not
\* that of the byte values
C20_Witness ==
    /\ op.name = "hash"
    /\ charIsSigned
    /\ \E u \in 1..Len(op.key) : op.key[u] >= 128
    /\ op.uBucketCount = 65521
    /\ retH # FoldedHash(op.key, op.uBucketCount, FALSE)

\* the key of five bytes 255 where char is unsigned: the fold,
\* 4722105403419153744255 without the wrap at 2^64, gives 5858 with it
C20_WitnessWrap ==
    /\ op.name = "hash"
    /\ ~charIsSigned
    /\ op.key = <<255, 255, 255, 255, 255>>
    /\ op.uBucketCount = 65521
    /\ retH = 5858

\* the same key where char is signed
C20_WitnessWrapSigned ==
    /\ op.name = "hash"
    /\ charIsSigned
    /\ op.key = <<255, 255, 255, 255, 255>>
    /\ op.uBucketCount = 65521
    /\ retH = 17970

\* the empty key
C20_WitnessEmpty ==
    /\ op.name = "hash"
    /\ op.key = <<>>
    /\ retH = 0

-----------------------------------------------------------------------------
(* What a NULL result says, and the search of SymTable_expand.               *)

\* the keys that table t binds to the value NULL
NullKeys(t) ==
    LET bs == AllBindings(t)
    IN  {bs[i].key : i \in {j \in 1..Len(bs) : bs[j].value = NULL}}

\* C21 as stated: in every table state and for every key, get returns NULL
\* exactly when contains returns 0, and a NULL result of replace or of remove
\* means that the key was not bound.
C21_NullMeansUnbound ==
    /\ ref = "live" =>
            \A k \in AllKeys :
                (SymTable_get(hashT, k) = NULL) <=> (SymTable_contains(hashT, k) = 0)
    /\ (Did("replace") \/ Did("remove")) =>
            (retH = NULL => ~Bound(preH, op.key))

\* C21: get returns NULL exactly when the key is not bound or is bound to the
\* value NULL, and so do replace and remove for the table they were called
\* on; a result other than NULL means that the key is (was) bound.
C21_NullIsUnboundOrNullValue ==
    /\ ref = "live" =>
            LET nulls == NullKeys(hashT)
            IN  \A k \in AllKeys :
                    (SymTable_get(hashT, k) = NULL)
                        <=> (SymTable_contains(hashT, k) = 0 \/ k \in nulls)
    /\ (Did("replace") \/ Did("remove")) =>
            ((retH = NULL) <=> (~Bound(preH, op.key) \/ op.key \in NullKeys(preH)))

\* a get of a key that a put of this history has bound to NULL: it returns
\* NULL although contains returns 1
C21_Witness ==
    /\ Did("get")
    /\ hist.bound[op.key] = <<NULL>>
    /\ hist.was = <<>>
    /\ SymTable_contains(hashT, op.key) = 1
    /\ retH = NULL

\* a remove, on the table of 510 bindings, of a key bound to NULL: it returns
\* NULL although the key was bound
C21_WitnessRemove ==
    /\ Did("remove")
    /\ hist.was = <<NULL>>
    /\ Bound(preH, op.key)
    /\ retH = NULL
    /\ preH.length = primeBuckCounts[1] + 1

\* the search of SymTable_expand for numBuckets ends at a position of
\* primeBuckCounts that holds numBuckets and is not the last, so the read of
\* the next position is inside the array (positions 1..7 here are the
\* indexes 0..6 of C)
SearchInBounds(numBuckets) ==
    LET index == ExpandIndex(1, numBuckets)
    IN  /\ index \in 1..(Len(primeBuckCounts) - 1)
        /\ primeBuckCounts[index] = numBuckets
        /\ index + 1 \in DOMAIN primeBuckCounts

\* C22: whenever SymTable_put calls SymTable_expand, which it does only with
\* a bucket count below 65521, the search for the bucket count ends at an
\* index in 0..6 and primeBuckCounts[index+1] is read inside the array; this
\* holds of the put just made and of the put that any reachable table would
\* get next.
C22_ExpandSearchInBounds ==
    /\ (DidOnAny("put") /\ GrowthAttempted(preH)) =>
            /\ preH.numBuckets < 65521
            /\ SearchInBounds(preH.numBuckets)
    /\ (status = "running" /\ ref \in {"live", "large"} /\ GrowthAttempted(hashT)) =>
            SearchInBounds(hashT.numBuckets)

\* a put that called SymTable_expand on a table of 32749 buckets: the search
\* ended at index 6, the last it can end at, and the calloc then failed
C22_Witness ==
    /\ DidOnAny("put")
    /\ GrowthAttempted(preH)
    /\ ExpandIndex(1, preH.numBuckets) = Len(primeBuckCounts) - 1
    /\ ~op.alloc.calloc
    /\ hashT.numBuckets = preH.numBuckets

\* a put that called SymTable_expand on the table of 510 bindings that keeps
\* its chains: the search ended at index 0
C22_WitnessFirst ==
    /\ Did("put")
    /\ GrowthAttempted(preH)
    /\ ExpandIndex(1, preH.numBuckets) = 1
    /\ hashT.numBuckets = primeBuckCounts[2]

\* a table of 65521 buckets and more bindings: the next put does not call
\* SymTable_expand
C22_WitnessAtMaximum ==
    /\ ref = "large"
    /\ hashT.numBuckets = 65521
    /\ hashT.length > hashT.numBuckets
    /\ ~GrowthAttempted(hashT)

====
